---- MODULE Spec2Model ----
(***************************************************************************)
(* Ledger engine of txn (src/src/main.rs): an ordered stream of deposit,   *)
(* withdrawal, dispute, resolve and chargeback transactions is replayed    *)
(* through execute against a table of per-client accounts.                 *)
(*                                                                         *)
(* Money amounts are Decimals rounded to CURRENCY_PRECISION fractional     *)
(* digits; the model counts them in units of 10^-4, so an amount is an     *)
(* integer.  Option<Decimal> is a sequence: <<>> is None, <<a>> is Some(a).*)
(* Sums and differences of such amounts are exact in rust_decimal; an      *)
(* overflow of its 96-bit mantissa panics and lies outside the bounds.     *)
(*                                                                         *)
(* txn, repeated and heldBy are history variables: they record what was    *)
(* handed to execute and what a dispute put on hold, and no operation      *)
(* reads them.                                                             *)
(***************************************************************************)
EXTENDS Integers, FiniteSets, Sequences, TLC

\* ---------------------------------------------------------------- bounds
NumClients == 2
NumTxnIds == 2
MaxAmount == 1
MaxSteps == 4

ClientIds == 1..NumClients
TxnIds == 1..NumTxnIds
\* a Decimal is signed: the record "deposit,1,1,-0.0001" parses
Amounts == (0 - MaxAmount)..MaxAmount

\* ----------------------------------------------------------------- types
TxnType == {"Deposit", "Withdrawal", "Dispute", "Resolve", "Chargeback"}

\* struct Txn; amount is Option<Decimal>
Txn == [txntype : TxnType, client : ClientIds, tx : TxnIds,
        amount : {<<>>} \cup {<<a>> : a \in Amounts}]

\* the value of `txn` before the first record is read
NoTxn == [txntype |-> "None", client |-> 0, tx |-> 0, amount |-> <<>>]

\* Balance::default()
DefaultBalance == [available |-> 0, held |-> 0, total |-> 0]

\* Account::default(); txnlog is a map: a function on the logged ids
DefaultAccount ==
    [balance |-> DefaultBalance, disputes |-> {}, txnlog |-> <<>>,
     locked |-> FALSE]

\* Txn::amount: unwrap_or(0.0)
amount(t) == IF t.amount = <<>> THEN 0 ELSE t.amount[1]

\* ------------------------------------------------------------- operations
\* accounts.entry(client).or_insert_with(Account::default)
get_account_mut(accounts, client) ==
    IF client \in DOMAIN accounts THEN accounts
    ELSE accounts @@ (client :> DefaultAccount)

get_balance(accounts, client) ==
    IF client \in DOMAIN accounts THEN accounts[client].balance
    ELSE DefaultBalance

deposit_no_total(accounts, client, amt) ==
    LET accs == get_account_mut(accounts, client)
        b == accs[client].balance
    IN  [accs EXCEPT ![client].balance =
            [b EXCEPT !.available = b.available + amt]]

deposit(accounts, client, amt) ==
    LET accs == get_account_mut(accounts, client)
        b == accs[client].balance
    IN  [accs EXCEPT ![client].balance =
            [b EXCEPT !.available = b.available + amt,
                      !.total = b.total + amt]]

withdraw_unchecked(accounts, client, amt) ==
    LET accs == get_account_mut(accounts, client)
        b == accs[client].balance
    IN  [accs EXCEPT ![client].balance =
            [b EXCEPT !.available = b.available - amt,
                      !.total = b.total - amt]]

withdraw(accounts, client, amt) ==
    LET accs == get_account_mut(accounts, client)
        b == accs[client].balance
    IN  IF b.available < amt THEN accs
        ELSE [accs EXCEPT ![client].balance =
                [b EXCEPT !.available = b.available - amt,
                          !.total = b.total - amt]]

dispute_cross_account(accounts, client, tx) ==
    LET accs == get_account_mut(accounts, client)
        account == accs[client]
        b == account.balance
        owners == {o \in DOMAIN accs : tx \in DOMAIN accs[o].txnlog}
        t == accs[CHOOSE o \in owners : TRUE].txnlog[tx]
    IN  IF owners = {} THEN accs
        ELSE IF tx \in account.disputes THEN accs
        ELSE [accs EXCEPT
                ![client].disputes = account.disputes \cup {tx},
                ![client].balance =
                    [b EXCEPT !.available = b.available - amount(t),
                              !.held = b.held + amount(t)]]

dispute_no_create(accounts, client, tx) ==
    IF client \notin DOMAIN accounts THEN accounts
    ELSE LET account == accounts[client]
             b == account.balance
         IN  IF tx \notin DOMAIN account.txnlog THEN accounts
             ELSE IF tx \in account.disputes THEN accounts
             ELSE [accounts EXCEPT
                ![client].disputes = account.disputes \cup {tx},
                ![client].balance =
                    [b EXCEPT !.available = b.available - amount(account.txnlog[tx]),
                              !.held = b.held + amount(account.txnlog[tx])]]

dispute_insert_first(accounts, client, tx) ==
    LET accs == get_account_mut(accounts, client)
        account == accs[client]
        b == account.balance
        marked == [accs EXCEPT ![client].disputes = account.disputes \cup {tx}]
    IN  IF tx \in account.disputes THEN accs
        ELSE IF tx \notin DOMAIN account.txnlog THEN marked
        ELSE [marked EXCEPT
                ![client].balance =
                    [b EXCEPT !.available = b.available - amount(account.txnlog[tx]),
                              !.held = b.held + amount(account.txnlog[tx])]]

dispute_twice(accounts, client, tx) ==
    LET accs == get_account_mut(accounts, client)
        account == accs[client]
        b == account.balance
    IN  IF tx \notin DOMAIN account.txnlog THEN accs
        ELSE [accs EXCEPT
                ![client].disputes = account.disputes \cup {tx},
                ![client].balance =
                    [b EXCEPT !.available = b.available - amount(account.txnlog[tx]),
                              !.held = b.held + amount(account.txnlog[tx])]]

dispute_no_deduct(accounts, client, tx) ==
    LET accs == get_account_mut(accounts, client)
        account == accs[client]
        b == account.balance
    IN  IF tx \notin DOMAIN account.txnlog THEN accs
        ELSE IF tx \in account.disputes THEN accs
        ELSE [accs EXCEPT
                ![client].disputes = account.disputes \cup {tx},
                ![client].balance =
                    [b EXCEPT !.held = b.held + amount(account.txnlog[tx]),
                              !.total = b.total + amount(account.txnlog[tx])]]

dispute(accounts, client, tx) ==
    LET accs == get_account_mut(accounts, client)
        account == accs[client]
        b == account.balance
    IN  IF tx \notin DOMAIN account.txnlog THEN accs
        ELSE IF tx \in account.disputes THEN accs
        ELSE [accs EXCEPT
                ![client].disputes = account.disputes \cup {tx},
                ![client].balance =
                    [b EXCEPT !.available = b.available - amount(account.txnlog[tx]),
                              !.held = b.held + amount(account.txnlog[tx])]]

resolve(accounts, client, tx) ==
    LET accs == get_account_mut(accounts, client)
        account == accs[client]
        b == account.balance
    IN  IF tx \notin account.disputes THEN accs
        ELSE [accs EXCEPT
                ![client].disputes = account.disputes \ {tx},
                ![client].balance =
                    [b EXCEPT !.available = b.available + amount(account.txnlog[tx]),
                              !.held = b.held - amount(account.txnlog[tx])]]

lock_all(accounts, client) ==
    LET accs == get_account_mut(accounts, client)
    IN  [c \in DOMAIN accs |-> [accs[c] EXCEPT !.locked = TRUE]]

lock(accounts, client) ==
    [get_account_mut(accounts, client) EXCEPT ![client].locked = TRUE]

chargeback_keep_total(accounts, client, tx) ==
    LET accs == get_account_mut(accounts, client)
        account == accs[client]
        b == account.balance
    IN  IF tx \notin account.disputes THEN accs
        ELSE lock([accs EXCEPT
                ![client].balance =
                    [b EXCEPT !.held = b.held - amount(account.txnlog[tx])],
                ![client].disputes = account.disputes \ {tx}], client)

chargeback_unchecked(accounts, client, tx) ==
    LET accs == get_account_mut(accounts, client)
        account == accs[client]
        b == account.balance
    IN  IF tx \notin DOMAIN account.txnlog THEN accs
        ELSE lock([accs EXCEPT
                ![client].balance =
                    [b EXCEPT !.held = b.held - amount(account.txnlog[tx]),
                              !.total = b.total - amount(account.txnlog[tx])],
                ![client].disputes = account.disputes \ {tx}], client)

chargeback(accounts, client, tx) ==
    LET accs == get_account_mut(accounts, client)
        account == accs[client]
        b == account.balance
    IN  IF tx \notin account.disputes THEN accs
        ELSE lock([accs EXCEPT
                ![client].balance =
                    [b EXCEPT !.held = b.held - amount(account.txnlog[tx]),
                              !.total = b.total - amount(account.txnlog[tx])],
                ![client].disputes = account.disputes \ {tx}], client)

is_locked_never(accounts, client) == FALSE

is_locked(accounts, client) ==
    IF client \in DOMAIN accounts THEN accounts[client].locked ELSE FALSE

\* HashMap::insert: an entry already stored under transaction.tx is replaced
log_transaction(accounts, transaction) ==
    LET accs == get_account_mut(accounts, transaction.client)
        log == accs[transaction.client].txnlog
        tx == transaction.tx
    IN  [accs EXCEPT ![transaction.client].txnlog =
            [k \in DOMAIN log \cup {tx} |->
                IF k = tx THEN transaction ELSE log[k]]]

execute(accounts, t) ==
    IF is_locked(accounts, t.client) THEN accounts
    ELSE CASE t.txntype = "Deposit" ->
                log_transaction(deposit(accounts, t.client, amount(t)), t)
           [] t.txntype = "Withdrawal" ->
                log_transaction(withdraw(accounts, t.client, amount(t)), t)
           [] t.txntype = "Dispute" -> dispute(accounts, t.client, t.tx)
           [] t.txntype = "Resolve" -> resolve(accounts, t.client, t.tx)
           [] t.txntype = "Chargeback" -> chargeback(accounts, t.client, t.tx)

\* ------------------------------------------------------------- normalizer
\* const CURRENCY_PRECISION
CURRENCY_PRECISION == 4

\* ClientId::MAX (u16).  TxnId is u32: its upper limit lies beyond the
\* integers of the model checker, so only its lower limit is modelled.
U16Max == 65535

\* bounds of the Decimal texts fed to the normalizer
MaxMantissa == 60
MaxScale == 6

RECURSIVE Pow10(_)
Pow10(n) == IF n = 0 THEN 1 ELSE 10 * Pow10(n - 1)

Abs(x) == IF x < 0 THEN 0 - x ELSE x

\* a Decimal is mantissa * 10^-scale
Decimal == [m : (0 - MaxMantissa)..MaxMantissa, scale : 0..MaxScale]

\* Decimal's Eq and Ord compare the numeric value, not the representation
DecCmp(x, y) ==
    x.m * Pow10(MaxScale - x.scale) - y.m * Pow10(MaxScale - y.scale)

round_dp_truncate(d, dp) ==
    IF d.scale <= dp THEN d
    ELSE LET p == Pow10(d.scale - dp)
             q == Abs(d.m) \div p
         IN  [m |-> IF d.m < 0 THEN 0 - q ELSE q, scale |-> dp]

\* Decimal::round_dp: banker's rounding (midpoint to the nearest even)
round_dp(d, dp) ==
    IF d.scale <= dp THEN d
    ELSE LET p == Pow10(d.scale - dp)
             q == Abs(d.m) \div p
             r == Abs(d.m) % p
             up == (2 * r > p) \/ (2 * r = p /\ q % 2 = 1)
             n == IF up THEN q + 1 ELSE q
         IN  [m |-> IF d.m < 0 THEN 0 - n ELSE n, scale |-> dp]

\* Txn::new: the amount, when there is one, is rounded
Txn_new(txntype, client, tx, amt) ==
    [txntype |-> txntype, client |-> client, tx |-> tx,
     amount |-> IF amt = <<>> THEN <<>>
                ELSE <<round_dp(amt[1], CURRENCY_PRECISION)>>]

\* Txn::truncate_amount
truncate_amount(t) ==
    IF t.amount = <<>> THEN t
    ELSE [t EXCEPT !.amount = <<round_dp(t.amount[1], CURRENCY_PRECISION)>>]

\* the text of one field: a number, or something that is not one
IdTexts == [kind : {"number"}, n : {-1, 1, U16Max + 1}]
              \cup {[kind |-> "garbage", n |-> 0]}

\* the amount field: missing from the row, empty, a decimal, or garbage
AmountTexts ==
    {[kind |-> k, m |-> 0, scale |-> 0] : k \in {"absent", "empty", "garbage"}}
        \cup [kind : {"number"}, m : (0 - MaxMantissa)..MaxMantissa,
              scale : 0..MaxScale]

\* the type tags serde accepts (rename_all = "lowercase"), and one it does not
TypeTags == {"deposit", "withdrawal", "dispute", "resolve", "chargeback",
             "transfer"}

\* csv::StringRecord; padded: the fields carry surrounding whitespace
Records == [type : TypeTags, client : IdTexts, tx : IdTexts,
            amount : AmountTexts, padded : BOOLEAN]

NoRecord ==
    [type |-> "", client |-> [kind |-> "garbage", n |-> 0],
     tx |-> [kind |-> "garbage", n |-> 0],
     amount |-> [kind |-> "absent", m |-> 0, scale |-> 0], padded |-> FALSE]

\* the Err of csv::Result<Txn>
Failed == [ok |-> FALSE, txn |-> NoTxn]

\* StringRecord::trim
trim(record) == [record EXCEPT !.padded = FALSE]

\* #[derive(Deserialize)] for TxnType
TagType(tag) ==
    CASE tag = "deposit" -> "Deposit"
      [] tag = "withdrawal" -> "Withdrawal"
      [] tag = "dispute" -> "Dispute"
      [] tag = "resolve" -> "Resolve"
      [] tag = "chargeback" -> "Chargeback"
      [] OTHER -> "None"

\* record.deserialize::<Txn>(None): the four fields by position; a field with
\* whitespace around it parses neither as a tag nor as a number; an empty
\* amount field is None for every transaction type
deserialize(record) ==
    IF \/ record.padded
       \/ TagType(record.type) = "None"
       \/ record.client.kind # "number"
       \/ record.client.n < 0 \/ record.client.n > U16Max
       \/ record.tx.kind # "number"
       \/ record.tx.n < 0
       \/ record.amount.kind \in {"absent", "garbage"}
    THEN Failed
    ELSE [ok |-> TRUE,
          txn |-> [txntype |-> TagType(record.type),
                   client |-> record.client.n,
                   tx |-> record.tx.n,
                   amount |-> IF record.amount.kind = "empty" THEN <<>>
                              ELSE <<[m |-> record.amount.m,
                                      scale |-> record.amount.scale]>>]]

deserialize_record(record) ==
    LET d == deserialize(trim(record))
    IN  IF d.ok THEN [ok |-> TRUE, txn |-> truncate_amount(d.txn)] ELSE Failed

\* a rounded Decimal counted in units of 10^-CURRENCY_PRECISION, the amounts
\* the ledger computes with
Units(d) ==
    IF d.scale <= CURRENCY_PRECISION
    THEN d.m * Pow10(CURRENCY_PRECISION - d.scale)
    ELSE (d.m * Pow10(CURRENCY_PRECISION)) \div Pow10(d.scale)

\* a normalized transaction with its amount in those units
InUnits(t) ==
    [t EXCEPT !.amount = IF t.amount = <<>> THEN <<>>
                         ELSE <<Units(t.amount[1])>>]

\* write_out: one row per account
write_out(accounts) ==
    [c \in DOMAIN accounts |->
        <<accounts[c].balance.available, accounts[c].balance.held,
          accounts[c].balance.total, accounts[c].locked>>]

\* one pass of main's loop over a row that the reader delivered: Err for a
\* malformed row, else the table after execute
main_row_skip(accounts, record) ==
    LET d == deserialize_record(record)
    IN  IF ~d.ok THEN [err |-> FALSE, accounts |-> accounts, txn |-> NoTxn]
        ELSE [err |-> FALSE,
              accounts |-> execute(accounts, InUnits(d.txn)),
              txn |-> InUnits(d.txn)]

main_row(accounts, record) ==
    LET d == deserialize_record(record)
    IN  IF ~d.ok THEN [err |-> TRUE, accounts |-> accounts, txn |-> NoTxn]
        ELSE [err |-> FALSE,
              accounts |-> execute(accounts, InUnits(d.txn)),
              txn |-> InUnits(d.txn)]

\* ------------------------------------------------------------------ state
VARIABLES
    accounts,   \* Accounts: HashMap<ClientId, Account>
    txn,        \* the transaction most recently handed to execute
    heldBy,     \* per client and id: what the pending dispute added to held
    repeated,   \* the last two transactions handed to execute were equal
    steps,      \* number of records executed so far
    status,     \* main: "reading" rows, "failed" (returned Err), "done"
    written,    \* what write_out has written: <<>> or <<the rows>>
    record,     \* the row most recently read
    result,     \* what deserialize_record returned for it
    malformed   \* some row read so far failed normalization

vars == <<accounts, txn, heldBy, repeated, steps,
          status, written, record, result, malformed>>

\* account of a client as the snapshot would show it (default when absent)
Acct(accs, c) == IF c \in DOMAIN accs THEN accs[c] ELSE DefaultAccount

Init ==
    /\ accounts = <<>>
    /\ txn = NoTxn
    /\ heldBy = [c \in ClientIds |-> [tx \in TxnIds |-> 0]]
    /\ repeated = FALSE
    /\ steps = 0
    /\ status = "reading"
    /\ written = <<>>
    /\ record = NoRecord
    /\ result = Failed
    /\ malformed = FALSE

\* what each pending dispute added to held, after a step from old to new
Held(old, new, hb) ==
    [c \in ClientIds |-> [tx \in TxnIds |->
        IF tx \in Acct(new, c).disputes \ Acct(old, c).disputes
            THEN Acct(new, c).balance.held - Acct(old, c).balance.held
        ELSE IF tx \in Acct(new, c).disputes THEN hb[c][tx]
        ELSE 0]]

\* one iteration of main's loop body: execute(&mut accounts, txn)
Run(t) ==
    /\ steps < MaxSteps
    /\ accounts' = execute(accounts, t)
    /\ txn' = t
    /\ repeated' = (t = txn)
    /\ steps' = steps + 1
    /\ heldBy' = Held(accounts, accounts', heldBy)
    /\ UNCHANGED <<status, written, record, result, malformed>>

Deposit ==
    \E t \in Txn : t.txntype = "Deposit" /\ Run(t)

Withdrawal ==
    \E t \in Txn : t.txntype = "Withdrawal" /\ Run(t)

Dispute ==
    \E t \in Txn : t.txntype = "Dispute" /\ t.amount = <<>> /\ Run(t)

Resolve ==
    \E t \in Txn : t.txntype = "Resolve" /\ t.amount = <<>> /\ Run(t)

Chargeback ==
    \E t \in Txn : t.txntype = "Chargeback" /\ t.amount = <<>> /\ Run(t)

Next == Deposit \/ Withdrawal \/ Dispute \/ Resolve \/ Chargeback

Spec == Init /\ [][Next]_vars

\* ------------------------------------------------------------------- main
\* the rows of the input file: a valid and an out-of-range id for client
\* and transaction, every kind of amount field, the amounts 0.0001 and
\* 0.00015 (which needs rounding); trimming is left to SpecNorm
MainRecords ==
    {r \in Records :
        /\ ~r.padded
        /\ r.client.kind = "number" /\ r.client.n > 0
        /\ r.tx.kind = "number" /\ r.tx.n <= 1
        /\ r.amount.kind = "number" =>
            \/ r.amount.scale = CURRENCY_PRECISION /\ r.amount.m = 1
            \/ r.amount.scale = CURRENCY_PRECISION + 1 /\ r.amount.m = 15}

\* for row in reader.into_records(): normalize, then execute or return Err
ReadRow ==
    \E r \in MainRecords :
        LET res == main_row(accounts, r)
        IN  /\ status = "reading"
            /\ steps < MaxSteps
            /\ status' = IF res.err THEN "failed" ELSE "reading"
            /\ accounts' = res.accounts
            /\ txn' = IF res.txn = NoTxn THEN txn ELSE res.txn
            /\ repeated' = (res.txn = txn)
            /\ heldBy' = Held(accounts, accounts', heldBy)
            /\ steps' = steps + 1
            /\ record' = r
            /\ result' = deserialize_record(r)
            /\ malformed' = (malformed \/ ~deserialize_record(r).ok)
            /\ written' = written

\* the reader is exhausted: write_out(&accounts); Ok(())
EndOfInput ==
    /\ status = "reading"
    /\ status' = "done"
    /\ written' = <<write_out(accounts)>>
    /\ UNCHANGED <<accounts, txn, heldBy, repeated, steps, record, result,
                   malformed>>

NextMain == ReadRow \/ EndOfInput

SpecMain == Init /\ [][NextMain]_vars

\* ------------------------------------------------- the normalizer by itself
InitNorm ==
    /\ accounts = <<>>
    /\ txn = NoTxn
    /\ heldBy = [c \in ClientIds |-> [tx \in TxnIds |-> 0]]
    /\ repeated = FALSE
    /\ steps = 0
    /\ status = "reading"
    /\ written = <<>>
    /\ record \in Records
    /\ result = Failed
    /\ malformed = FALSE

Normalize ==
    /\ status = "reading"
    /\ status' = "done"
    /\ result' = deserialize_record(record)
    /\ malformed' = ~result'.ok
    /\ UNCHANGED <<accounts, txn, heldBy, repeated, steps, written, record>>

NextNorm == Normalize

SpecNorm == InitNorm /\ [][NextNorm]_vars

\* ----------------------------------------------------------------- claims
\* the fields of an account that the snapshot and the dispute rules read
View(a) == <<a.balance, a.disputes, a.locked>>

\* C1: in every reachable state every account has total = available + held.
C1_TotalIsAvailablePlusHeld ==
    \A c \in DOMAIN accounts :
        accounts[c].balance.total =
            accounts[c].balance.available + accounts[c].balance.held

\* a chargeback has taken effect on an account that still holds money
C1_Witness ==
    \E c \in DOMAIN accounts :
        /\ accounts[c].locked
        /\ accounts[c].balance.total # 0

\* C2: in every reachable state (transaction ids may be reused within a
\* client) every account has held >= 0.
C2_HeldNonNegative ==
    \A c \in DOMAIN accounts : accounts[c].balance.held >= 0

\* C3: once an account is locked, no executed transaction changes its
\* available, held, total or disputes set, and it stays locked.
C3_LockFinality ==
    [][\A c \in DOMAIN accounts :
          accounts[c].locked =>
              /\ c \in DOMAIN accounts'
              /\ accounts'[c].locked
              /\ accounts'[c].balance = accounts[c].balance
              /\ accounts'[c].disputes = accounts[c].disputes]_vars

\* a Deposit was executed for a client whose account was already locked (a
\* Deposit locks nothing, so the lock is older than the Deposit)
C3_Witness ==
    /\ txn.txntype = "Deposit"
    /\ amount(txn) # 0
    /\ is_locked(accounts, txn.client)

\* C4: a Withdrawal whose amount exceeds available leaves the whole account
\* as it was: balance, disputes set, transaction log and locked flag.
C4_IgnoredWithdrawalNotLogged ==
    [][(/\ txn'.txntype = "Withdrawal"
        /\ Acct(accounts, txn'.client).balance.available < amount(txn'))
          => Acct(accounts', txn'.client) = Acct(accounts, txn'.client)]_vars

\* C5: executing the same Dispute a second time in a row changes nothing in
\* the account (available, held, total, disputes, locked).
C5_DisputeIdempotent ==
    [][(txn.txntype = "Dispute" /\ txn' = txn)
          => View(Acct(accounts', txn.client)) =
                View(Acct(accounts, txn.client))]_vars

\* the same Dispute ran twice in a row on a transaction it holds
C5_Witness ==
    /\ repeated
    /\ txn.txntype = "Dispute"
    /\ txn.tx \in Acct(accounts, txn.client).disputes
    /\ Acct(accounts, txn.client).balance.held # 0

\* C6: a Resolve or Chargeback of a transaction that is not in the disputes
\* set leaves available, held, total, disputes and locked unchanged.
C6_UndisputedNoOp ==
    [][(/\ txn'.txntype \in {"Resolve", "Chargeback"}
        /\ txn'.tx \notin Acct(accounts, txn'.client).disputes)
          => View(Acct(accounts', txn'.client)) =
                View(Acct(accounts, txn'.client))]_vars

\* a Chargeback ran on a logged transaction of an account that is still
\* unlocked: the transaction was not disputed
C6_Witness ==
    /\ txn.txntype = "Chargeback"
    /\ txn.client \in DOMAIN accounts
    /\ ~accounts[txn.client].locked
    /\ txn.tx \in DOMAIN accounts[txn.client].txnlog
    /\ accounts[txn.client].balance.available # 0

\* C7: a Chargeback of a disputed transaction on an unlocked account removes
\* it from disputes, takes its logged amount off held and total, leaves
\* available alone and locks the account.
C7_ChargebackEffect ==
    [][\A c \in DOMAIN accounts : \A tx \in accounts[c].disputes :
          (/\ txn'.txntype = "Chargeback" /\ txn'.client = c /\ txn'.tx = tx
           /\ ~accounts[c].locked)
          => LET b == accounts[c].balance
                 a == amount(accounts[c].txnlog[tx])
             IN  /\ accounts'[c].disputes = accounts[c].disputes \ {tx}
                 /\ accounts'[c].balance.held = b.held - a
                 /\ accounts'[c].balance.total = b.total - a
                 /\ accounts'[c].balance.available = b.available
                 /\ accounts'[c].locked]_vars

\* Deposit, Dispute, Chargeback: the third step is a Chargeback that locked
C7_Witness ==
    /\ steps = 3
    /\ txn.txntype = "Chargeback"
    /\ is_locked(accounts, txn.client)
    /\ amount(accounts[txn.client].txnlog[txn.tx]) # 0

\* C8: a Dispute of a logged, undisputed transaction (Deposit or Withdrawal)
\* on an unlocked account adds it to disputes, moves its logged amount from
\* available to held and leaves total and locked unchanged.
C8_DisputeEffect ==
    [][\A c \in DOMAIN accounts :
       \A tx \in DOMAIN accounts[c].txnlog \ accounts[c].disputes :
          (/\ txn'.txntype = "Dispute" /\ txn'.client = c /\ txn'.tx = tx
           /\ ~accounts[c].locked)
          => LET b == accounts[c].balance
                 a == amount(accounts[c].txnlog[tx])
             IN  /\ accounts'[c].disputes = accounts[c].disputes \cup {tx}
                 /\ accounts'[c].balance.available = b.available - a
                 /\ accounts'[c].balance.held = b.held + a
                 /\ accounts'[c].balance.total = b.total
                 /\ accounts'[c].locked = accounts[c].locked]_vars

\* Withdrawal, Dispute: the second step disputed a logged Withdrawal
C8_Witness ==
    /\ steps = 2
    /\ txn.txntype = "Dispute"
    /\ txn.tx \in Acct(accounts, txn.client).disputes
    /\ accounts[txn.client].txnlog[txn.tx].txntype = "Withdrawal"
    /\ accounts[txn.client].balance.held # 0

\* C9: a Resolve or Chargeback of a disputed transaction takes off held
\* exactly what its Dispute added, whatever was executed in between.
C9_ReleaseEqualsHold ==
    [][\A c \in DOMAIN accounts : \A tx \in accounts[c].disputes :
          (/\ txn'.txntype \in {"Resolve", "Chargeback"}
           /\ txn'.client = c /\ txn'.tx = tx
           /\ ~accounts[c].locked)
          => accounts[c].balance.held - accounts'[c].balance.held
                = heldBy[c][tx]]_vars

\* C10: a logged transaction id stays in its account's log and keeps
\* mapping to the same transaction.
C10_LogAppendOnly ==
    [][\A c \in DOMAIN accounts : \A tx \in DOMAIN accounts[c].txnlog :
          /\ c \in DOMAIN accounts'
          /\ tx \in DOMAIN accounts'[c].txnlog
          /\ accounts'[c].txnlog[tx] = accounts[c].txnlog[tx]]_vars

\* C11: a Dispute of an id that is not in the client's own log (unknown, or
\* logged only under another client) changes no account's available, held,
\* total, disputes set or locked flag.
C11_DisputeUnknownNoOp ==
    [][(/\ txn'.txntype = "Dispute"
        /\ txn'.tx \notin DOMAIN Acct(accounts, txn'.client).txnlog)
          => \A c \in ClientIds :
                View(Acct(accounts', c)) = View(Acct(accounts, c))]_vars

\* a Dispute ran for a client that never logged the id, while another
\* client holds a non-zero transaction under that id
C11_Witness ==
    /\ txn.txntype = "Dispute"
    /\ txn.tx \notin DOMAIN Acct(accounts, txn.client).txnlog
    /\ \E o \in DOMAIN accounts :
          /\ o # txn.client
          /\ txn.tx \in DOMAIN accounts[o].txnlog
          /\ amount(accounts[o].txnlog[txn.tx]) # 0

\* C14: a Withdrawal that changes the balance leaves available >= 0, and a
\* Withdrawal on an account with available >= 0 leaves available >= 0.
C14_WithdrawalKeepsAvailableNonNegative ==
    [][txn'.txntype = "Withdrawal"
          => LET old == Acct(accounts, txn'.client).balance
                 new == Acct(accounts', txn'.client).balance
             IN  /\ new # old => new.available >= 0
                 /\ old.available >= 0 => new.available >= 0]_vars

\* Deposit of 1 under one id, then a Withdrawal of 1 under another id that
\* took the available balance down to 0
C14_Witness ==
    /\ steps = 2
    /\ txn.txntype = "Withdrawal"
    /\ amount(txn) = 1
    /\ accounts[txn.client].balance.available = 0
    /\ \E tx \in DOMAIN accounts[txn.client].txnlog :
          /\ accounts[txn.client].txnlog[tx].txntype = "Deposit"
          /\ amount(accounts[txn.client].txnlog[tx]) = 1

\* C15: the table holds an account for exactly the clients referenced by an
\* executed transaction (applied or ignored); an account starts at zero
\* balance, no disputes, unlocked (a new account shows only what its first
\* Deposit or Withdrawal moved); no account is ever removed.
C15_AccountPerReferencedClient ==
    [][/\ DOMAIN accounts' = DOMAIN accounts \cup {txn'.client}
       /\ \A c \in DOMAIN accounts' \ DOMAIN accounts :
            LET a == amount(txn')
                first == IF txn'.txntype = "Deposit" THEN a
                         ELSE IF txn'.txntype = "Withdrawal" /\ a <= 0
                              THEN 0 - a
                         ELSE 0
            IN  /\ accounts'[c].balance =
                      [available |-> first, held |-> 0, total |-> first]
                /\ accounts'[c].disputes = {}
                /\ ~accounts'[c].locked]_vars

\* the first record is a Withdrawal on a never-seen client: the account
\* exists and is all zero
C15_Witness ==
    /\ steps = 1
    /\ txn.txntype = "Withdrawal"
    /\ amount(txn) = 1
    /\ txn.client \in DOMAIN accounts
    /\ accounts[txn.client].balance = DefaultBalance
    /\ accounts[txn.client].disputes = {}
    /\ ~accounts[txn.client].locked

\* C16: in every reachable state the disputes set of every account is a
\* subset of the ids in its log (the lookups after the membership check
\* in resolve and chargeback find their entry).
C16_DisputesSubsetOfLog ==
    \A c \in DOMAIN accounts :
        accounts[c].disputes \subseteq DOMAIN accounts[c].txnlog

\* a transaction is under dispute while a Resolve of another id was ignored
C16_Witness ==
    /\ txn.txntype = "Resolve"
    /\ txn.client \in DOMAIN accounts
    /\ accounts[txn.client].disputes # {}
    /\ accounts[txn.client].balance.held # 0

\* C18: executing a transaction for one client leaves every other client's
\* account (balance, disputes, log, locked) as it was.
C18_OtherAccountsUntouched ==
    [][\A c \in ClientIds \ {txn'.client} :
          /\ (c \in DOMAIN accounts') = (c \in DOMAIN accounts)
          /\ Acct(accounts', c) = Acct(accounts, c)]_vars

\* a transaction took effect for one client while another client's account
\* holds a balance and a dispute
C18_Witness ==
    /\ txn.txntype = "Chargeback"
    /\ is_locked(accounts, txn.client)
    /\ \E o \in DOMAIN accounts :
          /\ o # txn.client
          /\ ~accounts[o].locked
          /\ accounts[o].balance.total # 0

\* sum of the logged amounts of a set of ids of one account
RECURSIVE SumLogged(_, _)
SumLogged(log, ids) ==
    IF ids = {} THEN 0
    ELSE LET tx == CHOOSE x \in ids : TRUE
         IN  amount(log[tx]) + SumLogged(log, ids \ {tx})

\* C19: in every reachable state held equals the sum of the logged amounts
\* of the ids in the disputes set (0 when nothing is disputed).
C19_HeldIsSumOfDisputed ==
    \A c \in DOMAIN accounts :
        accounts[c].balance.held =
            SumLogged(accounts[c].txnlog, accounts[c].disputes)

\* C20: locked turns true only in a step that executes a Chargeback of a
\* currently disputed transaction of that account; a Chargeback that takes
\* effect finds the account unlocked and leaves it locked for good, so at
\* most one takes effect per account.
C20_LockedOnlyByChargeback ==
    [][\A c \in ClientIds :
          /\ (~is_locked(accounts, c) /\ is_locked(accounts', c))
                => /\ txn'.txntype = "Chargeback"
                   /\ txn'.client = c
                   /\ txn'.tx \in Acct(accounts, c).disputes
          /\ (/\ txn'.txntype = "Chargeback" /\ txn'.client = c
              /\ View(Acct(accounts', c)) # View(Acct(accounts, c)))
                => ~is_locked(accounts, c) /\ is_locked(accounts', c)
          /\ is_locked(accounts, c) => is_locked(accounts', c)]_vars

\* a second Chargeback was executed on an account an earlier one locked
C20_Witness ==
    /\ repeated
    /\ txn.txntype = "Chargeback"
    /\ is_locked(accounts, txn.client)

\* C12: deserialize_record fails every Deposit or Withdrawal row whose
\* amount is empty or absent, so no Deposit or Withdrawal without an amount
\* is handed to execute.
C12_DepositNeedsAmount ==
    /\ (/\ record.type \in {"deposit", "withdrawal"}
        /\ record.amount.kind \in {"empty", "absent"}) => ~result.ok
    /\ txn.txntype \in {"Deposit", "Withdrawal"} => txn.amount # <<>>

\* C13: when a row fails normalization main returns the error and never
\* writes the snapshot, however many valid rows came first; the snapshot is
\* written only at the end of the input, from the table that executing
\* every row in order produced.
C13_NoSnapshotAfterMalformedRow ==
    /\ malformed => status = "failed"
    /\ status = "failed" => written = <<>>
    /\ written # <<>> =>
          /\ status = "done"
          /\ ~malformed
          /\ written[1] = write_out(accounts)
    /\ status = "done" => written # <<>>

\* valid rows changed the balance, then a malformed row ended the run
C13_Witness ==
    /\ status = "failed"
    /\ malformed
    /\ steps >= 3
    /\ written = <<>>
    /\ \E c \in DOMAIN accounts : accounts[c].balance.total # 0

\* C17: an amount that the normalizer lets through has at most 4
\* fractional digits, is the input rounded to the nearest 10^-4 (unchanged
\* when it had at most 4 digits), is what Txn::new makes of the same input,
\* and rounding it again changes nothing.
C17_AmountRoundedToFourDigits ==
    (status = "done" /\ result.ok /\ result.txn.amount # <<>>) =>
        LET d == [m |-> record.amount.m, scale |-> record.amount.scale]
            a == result.txn.amount[1]
        IN  /\ a.scale <= CURRENCY_PRECISION
            /\ 2 * Abs(DecCmp(a, d)) <= Pow10(MaxScale - CURRENCY_PRECISION)
            /\ d.scale <= CURRENCY_PRECISION => a = d
            /\ result.txn = Txn_new(result.txn.txntype, result.txn.client,
                                    result.txn.tx, <<d>>)
            /\ truncate_amount(result.txn) = result.txn
            /\ round_dp(a, CURRENCY_PRECISION) = a

\* 0.00015 was normalized to 0.0002 (a midpoint, rounded to the even digit)
C17_Witness ==
    /\ status = "done"
    /\ result.ok
    /\ record.amount.kind = "number"
    /\ record.amount.m = 15
    /\ record.amount.scale = CURRENCY_PRECISION + 1
    /\ result.txn.amount = <<[m |-> 2, scale |-> CURRENCY_PRECISION]>>

====
